---- MODULE Spec2Model ----
(***************************************************************************)
(* A model of the allmark web server core:                                 *)
(*   - ui/web/server/server.go : Server.Start, Server.IsRunning,           *)
(*     Server.getHttpBinding and the route table handed to gorilla/mux;    *)
(*   - the update hub (Register / Unregister / Publish);                   *)
(*   - mapper.Map / getSubModels;                                          *)
(*   - FileTreeRenderer.Render / renderFileNode;                           *)
(*   - repository.NewTag / normalizeTagName.                               *)
(*                                                                         *)
(* The components do not share state, so each has a specification of its   *)
(* own over its own variables; the variables of the other components are   *)
(* held at their initial values.                                           *)
(***************************************************************************)
EXTENDS Integers, Sequences, FiniteSets, TLC

VARIABLES
    \* ---- server.go -------------------------------------------------------
    port,           \* server.config.Server.Http.Port
    themeDirExists, \* fsutil.DirectoryExists(server.config.ThemeFolder())
    isRunning,      \* Server.isRunning
    starts,         \* number of Start() calls made so far on this Server
    pc,             \* position of the goroutine of each Start() call
    hubStarted,     \* per Start(): "go updateHub.Run()" has been executed
    routes,         \* per Start(): the patterns registered on requestRouter
    listener,       \* per Start(): "none" | "serving" | "returned"
    listenErr,      \* per Start(): what http.ListenAndServe returned
    sent,           \* per Start(): number of values sent on its result channel
    received,       \* per Start(): the value the caller received from the channel
    crashed,        \* the process was aborted by a panic
    racy,           \* per Start(): earlier flag values an unsynchronised read may still see
    observed,       \* what the caller's last IsRunning() call returned
    reqPath,        \* the path of the request being served
    reqHandler,     \* the handler the router selected for it
    \* ---- update hub ------------------------------------------------------
    hubLoop,        \* "created" | "running": the hub's coordination loop
    interest,       \* registry: connection -> its route of interest, or None
    alive,          \* connection -> its socket still accepts messages
    pending,        \* connection -> notifications queued on its delivery path
    delivered,      \* connection -> the routes it was notified of, in order
    lastPublish,    \* the last Publish: its route and the sessions it selected
    \* ---- mapper ----------------------------------------------------------
    items,          \* the item tree: item -> [Parent, ItemType]
    content,        \* the content function: item -> string
    mapResult,      \* what Map(root, content) returned
    itemModel,      \* item -> item.Model
    \* ---- file tree renderer ----------------------------------------------
    files,          \* the files the renderer was built from (their routes)
    base,           \* FileTreeRenderer.base
    renderArgs,     \* the arguments of the last Render call
    rendered,       \* what it returned
    \* ---- tag -------------------------------------------------------------
    tagInput,       \* the name given to NewTag
    tagResult,      \* what NewTag returned
    tagAgain        \* what NewTag returned for the Name of tagResult

serverVars == <<port, themeDirExists, isRunning, starts, pc, hubStarted, routes,
                listener, listenErr, sent, received, crashed, racy, observed>>
requestVars == <<reqPath, reqHandler>>
hubVars == <<hubLoop, interest, alive, pending, delivered, lastPublish>>
mapVars == <<items, content, mapResult, itemModel>>
renderVars == <<files, base, renderArgs, rendered>>
tagVars == <<tagInput, tagResult, tagAgain>>
vars == <<serverVars, requestVars, hubVars, mapVars, renderVars, tagVars>>
nonServerVars == <<requestVars, hubVars, mapVars, renderVars, tagVars>>

None == "none"

\* ------------------------------------------------------------------------
\* Bounds
\* ------------------------------------------------------------------------
MaxStarts == 2
MaxPathLen == 4
MaxConns == 2
MaxPublish == 2
MaxItems == 3
MaxFiles == 3
MaxNameLen == 3

\* math.MaxUint16
MaxUint16 == 65535
\* the configured ports tried: both edges of the valid range and their neighbours
PortValues == {0, 1, MaxUint16, MaxUint16 + 1}

Goroutines == 1..MaxStarts

\* ------------------------------------------------------------------------
\* Request paths.  A path is a sequence of symbols; every symbol other than
\* "/", "." and LF stands for the literal word it spells.
\* ------------------------------------------------------------------------
LF == "%0A"
PathSymbols == {"/", ".", LF, "x", "theme", "search", "print", "json", "rtf", "ws"}

\* the literal patterns of the const block
TagmapHandlerRoute == <<"/", "tags", ".", "html">>
SitemapHandlerRoute == <<"/", "sitemap", ".", "html">>
XmlSitemapHandlerRoute == <<"/", "sitemap", ".", "xml">>
RssHandlerRoute == <<"/", "feed", ".", "rss">>
RobotsTxtHandlerRoute == <<"/", "robots", ".", "txt">>
DebugHandlerRoute == <<"/", "debug", "/", "index">>
SearchHandlerRoute == <<"/", "search">>
OpenSearchDescriptionHandlerRoute == <<"/", "opensearch", ".", "xml">>
TypeAheadSearchHandlerRoute == <<"/", "search", ".", "json">>
TypeAheadTitlesHandlerRoute == <<"/", "titles", ".", "json">>
ThemeFolderRoute == <<"/", "theme">>

\* `/{path:.+\.<word>$|<word>$}` : the four dynamic patterns
PrintHandlerRoute == [kind |-> "suffix", word |-> "print"]
JsonHandlerRoute == [kind |-> "suffix", word |-> "json"]
RtfHandlerRoute == [kind |-> "suffix", word |-> "rtf"]
UpdateHandlerRoute == [kind |-> "suffix", word |-> "ws"]
\* `/{path:.*$}`
ItemHandlerRoute == [kind |-> "any"]

Literal(p) == [kind |-> "literal", path |-> p]
Prefix(p) == [kind |-> "prefix", path |-> p]

NoLF(s) == \A i \in 1..Len(s) : s[i] # LF

IsPrefixOf(pre, s) ==
    /\ Len(pre) <= Len(s)
    /\ \A i \in 1..Len(pre) : s[i] = pre[i]

\* mux compiles a path template to "^" + template + "$" (no "$" for a
\* PathPrefix); "." in the regular expression does not match a line feed.
PatternMatches(pat, p) ==
    /\ Len(p) >= 1
    /\ p[1] = "/"
    /\ LET rest == Tail(p)
           n == Len(rest)
       IN CASE pat.kind = "suffix" ->
                 \/ rest = <<pat.word>>
                 \/ /\ n >= 3
                    /\ rest[n] = pat.word
                    /\ rest[n - 1] = "."
                    /\ NoLF(SubSeq(rest, 1, n - 2))
            [] pat.kind = "any" -> NoLF(rest)
            [] pat.kind = "literal" -> p = pat.path
            [] pat.kind = "prefix" -> IsPrefixOf(pat.path, p)

Route(pat, h) == [pattern |-> pat, handler |-> h]

\* The catch-all registered before the rtf and json patterns.
RegisteredRoutesItemEarly(theme) ==
    <<Route(UpdateHandlerRoute, "Update"),
      Route(Literal(RobotsTxtHandlerRoute), "RobotsTxt"),
      Route(Literal(XmlSitemapHandlerRoute), "XmlSitemap"),
      Route(Literal(TagmapHandlerRoute), "Tags"),
      Route(Literal(SitemapHandlerRoute), "Sitemap"),
      Route(Literal(DebugHandlerRoute), "Debug"),
      Route(Literal(RssHandlerRoute), "Rss"),
      Route(PrintHandlerRoute, "Print"),
      Route(Literal(SearchHandlerRoute), "Search"),
      Route(Literal(OpenSearchDescriptionHandlerRoute), "OpenSearchDescription"),
      Route(Literal(TypeAheadSearchHandlerRoute), "TypeAheadSearch"),
      Route(Literal(TypeAheadTitlesHandlerRoute), "TypeAheadTitles")>>
    \o (IF theme THEN <<Route(Prefix(ThemeFolderRoute), "Static")>> ELSE <<>>)
    \o <<Route(ItemHandlerRoute, "Item"),
         Route(RtfHandlerRoute, "Rtf"),
         Route(JsonHandlerRoute, "Json")>>

\* The calls requestRouter.Handle / HandleFunc / PathPrefix of Start(), in
\* the order of the code.
RegisteredRoutes(theme) ==
    <<Route(UpdateHandlerRoute, "Update"),
      Route(Literal(RobotsTxtHandlerRoute), "RobotsTxt"),
      Route(Literal(XmlSitemapHandlerRoute), "XmlSitemap"),
      Route(Literal(TagmapHandlerRoute), "Tags"),
      Route(Literal(SitemapHandlerRoute), "Sitemap"),
      Route(Literal(DebugHandlerRoute), "Debug"),
      Route(Literal(RssHandlerRoute), "Rss"),
      Route(PrintHandlerRoute, "Print"),
      Route(Literal(SearchHandlerRoute), "Search"),
      Route(Literal(OpenSearchDescriptionHandlerRoute), "OpenSearchDescription"),
      Route(Literal(TypeAheadSearchHandlerRoute), "TypeAheadSearch"),
      Route(Literal(TypeAheadTitlesHandlerRoute), "TypeAheadTitles")>>
    \o (IF theme THEN <<Route(Prefix(ThemeFolderRoute), "Static")>> ELSE <<>>)
    \o <<Route(RtfHandlerRoute, "Rtf"),
         Route(JsonHandlerRoute, "Json"),
         Route(ItemHandlerRoute, "Item")>>

\* mux.Router.Match: the first registered route that matches wins; without
\* a match the NotFoundHandler answers.
RouterMatch(rs, p) ==
    LET hits == {i \in 1..Len(rs) : PatternMatches(rs[i].pattern, p)}
    IN IF hits = {} THEN "NotFound"
       ELSE rs[CHOOSE i \in hits : \A j \in hits : i <= j].handler

\* mux.Router.ServeHTTP redirects a request whose path is not in canonical
\* form (path.Clean, trailing slash kept) before any route is matched.
IsCleanPath(p) ==
    /\ Len(p) >= 1
    /\ p[1] = "/"
    /\ \A i \in 1..Len(p) :
          p[i] = "/" =>
             /\ ~(i < Len(p) /\ p[i + 1] = "/")
             /\ ~(/\ i < Len(p) /\ p[i + 1] = "."
                  /\ (i + 1 = Len(p) \/ p[i + 2] = "/"))
             /\ ~(/\ i + 1 < Len(p) /\ p[i + 1] = "." /\ p[i + 2] = "."
                  /\ (i + 2 = Len(p) \/ p[i + 3] = "/"))

ServeHTTP(rs, p) == IF IsCleanPath(p) THEN RouterMatch(rs, p) ELSE "Redirect"

\* ------------------------------------------------------------------------
\* Server.Start, Server.IsRunning, Server.getHttpBinding
\* ------------------------------------------------------------------------
ServerInit ==
    /\ port \in PortValues
    /\ themeDirExists \in BOOLEAN
    /\ isRunning = FALSE
    /\ starts = 0
    /\ pc = [g \in Goroutines |-> "idle"]
    /\ hubStarted = [g \in Goroutines |-> FALSE]
    /\ routes = [g \in Goroutines |-> <<>>]
    /\ listener = [g \in Goroutines |-> None]
    /\ listenErr = [g \in Goroutines |-> None]
    /\ sent = [g \in Goroutines |-> 0]
    /\ received = [g \in Goroutines |-> None]
    /\ crashed = FALSE
    /\ racy = [g \in Goroutines |-> {}]
    /\ observed = None

RequestInit ==
    /\ reqPath = <<>>
    /\ reqHandler = None

\* Start(): result := make(chan error); go func() {...}(); return result
Start ==
    /\ ~crashed
    /\ starts < MaxStarts
    /\ starts' = starts + 1
    /\ pc' = [pc EXCEPT ![starts + 1] = "spawned"]
    /\ UNCHANGED <<port, themeDirExists, isRunning, hubStarted, routes, listener,
                   listenErr, sent, received, crashed, racy, observed>>
    /\ UNCHANGED nonServerVars

\* server.isRunning = true.  The write is not synchronised with the caller:
\* until the caller synchronises with this goroutine a read may still return
\* the value the flag held before.
SetRunning(g) ==
    /\ ~crashed
    /\ pc[g] = "spawned"
    /\ isRunning' = TRUE
    /\ racy' = [racy EXCEPT ![g] = @ \cup ({isRunning} \ {TRUE})]
    /\ pc' = [pc EXCEPT ![g] = "hub"]
    /\ UNCHANGED <<port, themeDirExists, starts, hubStarted, routes, listener,
                   listenErr, sent, received, crashed, observed>>
    /\ UNCHANGED nonServerVars

\* requestRouter := mux.NewRouter(); updateHub := update.NewHub(...); go updateHub.Run()
StartHub(g) ==
    /\ ~crashed
    /\ pc[g] = "hub"
    /\ hubStarted' = [hubStarted EXCEPT ![g] = TRUE]
    /\ pc' = [pc EXCEPT ![g] = "routes"]
    /\ UNCHANGED <<port, themeDirExists, isRunning, starts, routes, listener,
                   listenErr, sent, received, crashed, racy, observed>>
    /\ UNCHANGED nonServerVars

\* the requestRouter.Handle / HandleFunc / PathPrefix calls
RegisterRoutes(g) ==
    /\ ~crashed
    /\ pc[g] = "routes"
    /\ routes' = [routes EXCEPT ![g] = RegisteredRoutes(themeDirExists)]
    /\ pc' = [pc EXCEPT ![g] = "binding"]
    /\ UNCHANGED <<port, themeDirExists, isRunning, starts, hubStarted, listener,
                   listenErr, sent, received, crashed, racy, observed>>
    /\ UNCHANGED nonServerVars

\* httpBinding := server.getHttpBinding(): panics on a port outside
\* [1, math.MaxUint16]; the panic of a goroutine aborts the process.
GetHttpBindingNoUpperCheck(g) ==
    /\ ~crashed
    /\ pc[g] = "binding"
    /\ IF port < 1
       THEN /\ crashed' = TRUE
            /\ pc' = [pc EXCEPT ![g] = "panicked"]
       ELSE /\ crashed' = crashed
            /\ pc' = [pc EXCEPT ![g] = "listen"]
    /\ UNCHANGED <<port, themeDirExists, isRunning, starts, hubStarted, routes,
                   listener, listenErr, sent, received, racy, observed>>
    /\ UNCHANGED nonServerVars

GetHttpBinding(g) ==
    /\ ~crashed
    /\ pc[g] = "binding"
    /\ IF port < 1 \/ port > MaxUint16
       THEN /\ crashed' = TRUE
            /\ pc' = [pc EXCEPT ![g] = "panicked"]
       ELSE /\ crashed' = crashed
            /\ pc' = [pc EXCEPT ![g] = "listen"]
    /\ UNCHANGED <<port, themeDirExists, isRunning, starts, hubStarted, routes,
                   listener, listenErr, sent, received, racy, observed>>
    /\ UNCHANGED nonServerVars

\* http.ListenAndServe binds the port and serves: the bind succeeds only
\* while no other listener of this process holds the port.
ListenBind(g) ==
    /\ ~crashed
    /\ pc[g] = "listen"
    /\ \A h \in Goroutines : listener[h] # "serving"
    /\ listener' = [listener EXCEPT ![g] = "serving"]
    /\ pc' = [pc EXCEPT ![g] = "serving"]
    /\ UNCHANGED <<port, themeDirExists, isRunning, starts, hubStarted, routes,
                   listenErr, sent, received, crashed, racy, observed>>
    /\ UNCHANGED nonServerVars

\* http.ListenAndServe returns at once: the port cannot be bound (in use by
\* this or another process, not permitted).
ListenBindFail(g) ==
    /\ ~crashed
    /\ pc[g] = "listen"
    /\ listener' = [listener EXCEPT ![g] = "returned"]
    /\ listenErr' = [listenErr EXCEPT ![g] = "bind_error"]
    /\ pc' = [pc EXCEPT ![g] = "send"]
    /\ UNCHANGED <<port, themeDirExists, isRunning, starts, hubStarted, routes,
                   sent, received, crashed, racy, observed>>
    /\ UNCHANGED nonServerVars

\* http.ListenAndServe returns after serving; the code handles an error and
\* a nil return.
ListenReturn(g, e) ==
    /\ ~crashed
    /\ pc[g] = "serving"
    /\ listener' = [listener EXCEPT ![g] = "returned"]
    /\ listenErr' = [listenErr EXCEPT ![g] = e]
    /\ pc' = [pc EXCEPT ![g] = "send"]
    /\ UNCHANGED <<port, themeDirExists, isRunning, starts, hubStarted, routes,
                   sent, received, crashed, racy, observed>>
    /\ UNCHANGED nonServerVars

\* what the goroutine sends for a return value of ListenAndServe
ResultFor(e) == IF e # "nil" THEN "error" ELSE "nil"

\* result <- ... : the channel is unbuffered, so the send completes together
\* with the caller's receive, which synchronises the caller with everything
\* this goroutine wrote before.
SendResultAgain(g) ==
    /\ ~crashed
    /\ pc[g] = "send"
    /\ sent[g] < 2
    /\ sent' = [sent EXCEPT ![g] = @ + 1]
    /\ received' = [received EXCEPT ![g] = ResultFor(listenErr[g])]
    /\ racy' = [racy EXCEPT ![g] = {}]
    /\ pc' = [pc EXCEPT ![g] = IF sent[g] = 0 THEN "send" ELSE "stopping"]
    /\ UNCHANGED <<port, themeDirExists, isRunning, starts, hubStarted, routes,
                   listener, listenErr, crashed, observed>>
    /\ UNCHANGED nonServerVars

SendResult(g) ==
    /\ ~crashed
    /\ pc[g] = "send"
    /\ sent' = [sent EXCEPT ![g] = @ + 1]
    /\ received' = [received EXCEPT ![g] = ResultFor(listenErr[g])]
    /\ racy' = [racy EXCEPT ![g] = {}]
    /\ pc' = [pc EXCEPT ![g] = "stopping"]
    /\ UNCHANGED <<port, themeDirExists, isRunning, starts, hubStarted, routes,
                   listener, listenErr, crashed, observed>>
    /\ UNCHANGED nonServerVars

\* server.isRunning = false, after the send
SetStopped(g) ==
    /\ ~crashed
    /\ pc[g] = "stopping"
    /\ isRunning' = FALSE
    /\ racy' = [racy EXCEPT ![g] = @ \cup ({isRunning} \ {FALSE})]
    /\ pc' = [pc EXCEPT ![g] = "done"]
    /\ UNCHANGED <<port, themeDirExists, starts, hubStarted, routes, listener,
                   listenErr, sent, received, crashed, observed>>
    /\ UNCHANGED nonServerVars

\* IsRunning(): return server.isRunning.  The read races with the writes of
\* the goroutines: it returns the flag, or a value the flag held before a
\* write the caller has not synchronised with.
IsRunningOutcomes == {isRunning} \cup UNION {racy[g] : g \in Goroutines}

IsRunning ==
    /\ ~crashed
    /\ \E v \in IsRunningOutcomes : observed' = v
    /\ UNCHANGED <<port, themeDirExists, isRunning, starts, pc, hubStarted, routes,
                   listener, listenErr, sent, received, crashed, racy>>
    /\ UNCHANGED nonServerVars

ListenOutcomes == {"serve_error", "nil"}

ServerNext ==
    \/ Start
    \/ \E g \in Goroutines : SetRunning(g)
    \/ \E g \in Goroutines : StartHub(g)
    \/ \E g \in Goroutines : RegisterRoutes(g)
    \/ \E g \in Goroutines : GetHttpBinding(g)
    \/ \E g \in Goroutines : ListenBind(g)
    \/ \E g \in Goroutines : ListenBindFail(g)
    \/ \E g \in Goroutines, e \in ListenOutcomes : ListenReturn(g, e)
    \/ \E g \in Goroutines : SendResult(g)
    \/ \E g \in Goroutines : SetStopped(g)
    \/ IsRunning

\* ------------------------------------------------------------------------
\* Requests served by the listener of a Start() call
\* ------------------------------------------------------------------------
FixedPages ==
    {TagmapHandlerRoute, SitemapHandlerRoute, XmlSitemapHandlerRoute, RssHandlerRoute,
     RobotsTxtHandlerRoute, DebugHandlerRoute, SearchHandlerRoute,
     OpenSearchDescriptionHandlerRoute, TypeAheadSearchHandlerRoute,
     TypeAheadTitlesHandlerRoute}

SymbolSeqs(n) == UNION {[1..k -> PathSymbols] : k \in 0..n}

ShortPaths == {<<"/">> \o t : t \in SymbolSeqs(MaxPathLen - 1)}

\* every path of at most MaxPathLen symbols, the same paths below the theme
\* folder, and the fixed pages
RequestPaths == ShortPaths \cup {ThemeFolderRoute \o q : q \in ShortPaths} \cup FixedPages

\* requestRouter.ServeHTTP for a request that arrives at the listener of g
Request(g) ==
    /\ ~crashed
    /\ pc[g] = "serving"
    /\ reqHandler = None
    /\ \E p \in RequestPaths :
          /\ reqPath' = p
          /\ reqHandler' = ServeHTTP(routes[g], p)
    /\ UNCHANGED <<serverVars, hubVars, mapVars, renderVars, tagVars>>

\* the selected handler has written its response
Respond ==
    /\ ~crashed
    /\ reqHandler # None
    /\ reqPath' = <<>>
    /\ reqHandler' = None
    /\ UNCHANGED <<serverVars, hubVars, mapVars, renderVars, tagVars>>

\* ------------------------------------------------------------------------
\* Components at rest
\* ------------------------------------------------------------------------
ServerIdle ==
    /\ port = 1
    /\ themeDirExists = FALSE
    /\ isRunning = FALSE
    /\ starts = 0
    /\ pc = [g \in Goroutines |-> "idle"]
    /\ hubStarted = [g \in Goroutines |-> FALSE]
    /\ routes = [g \in Goroutines |-> <<>>]
    /\ listener = [g \in Goroutines |-> None]
    /\ listenErr = [g \in Goroutines |-> None]
    /\ sent = [g \in Goroutines |-> 0]
    /\ received = [g \in Goroutines |-> None]
    /\ crashed = FALSE
    /\ racy = [g \in Goroutines |-> {}]
    /\ observed = None

HubIdle ==
    /\ hubLoop = "created"
    /\ interest = <<>>
    /\ alive = <<>>
    /\ pending = <<>>
    /\ delivered = <<>>
    /\ lastPublish = <<>>

MapIdle ==
    /\ items = <<>>
    /\ content = <<>>
    /\ mapResult = <<>>
    /\ itemModel = <<>>

RenderIdle ==
    /\ files = <<>>
    /\ base = <<>>
    /\ renderArgs = <<>>
    /\ rendered = <<>>

TagIdle ==
    /\ tagInput = <<>>
    /\ tagResult = <<>>
    /\ tagAgain = <<>>

\* ------------------------------------------------------------------------
\* The update hub: update.NewHub, Hub.Run and the operations the handlers
\* and the change source call on it
\* ------------------------------------------------------------------------
Conns == 1..MaxConns

\* routes of interest and changed routes, as sequences of segments
HubRoutes == {<<"a">>, <<"b">>, <<"a", "b">>}

\* update.NewHub: no session yet, the loop not yet started
HubInit ==
    /\ hubLoop = "created"
    /\ interest = [c \in Conns |-> [state |-> "new", route |-> <<>>]]
    /\ alive = [c \in Conns |-> TRUE]
    /\ pending = [c \in Conns |-> <<>>]
    /\ delivered = [c \in Conns |-> <<>>]
    /\ lastPublish = [n |-> 0, route |-> <<>>]

Registered(c) == interest[c].state = "registered"

\* go updateHub.Run(): the coordination loop serves requests from now on
HubRun ==
    /\ hubLoop = "created"
    /\ hubLoop' = "running"
    /\ UNCHANGED <<interest, alive, pending, delivered, lastPublish>>
    /\ UNCHANGED <<serverVars, requestVars, mapVars, renderVars, tagVars>>

\* Register(connection, route): admits a session for a new connection
Register(c, r) ==
    /\ hubLoop = "running"
    /\ interest[c].state = "new"
    /\ interest' = [interest EXCEPT ![c] = [state |-> "registered", route |-> r]]
    /\ UNCHANGED <<hubLoop, alive, pending, delivered, lastPublish>>
    /\ UNCHANGED <<serverVars, requestVars, mapVars, renderVars, tagVars>>

\* the session of c is destroyed, with what is queued on its delivery path
RemoveSession(c) ==
    /\ interest' = [interest EXCEPT ![c] = [state |-> "closed", route |-> <<>>]]
    /\ pending' = [pending EXCEPT ![c] = <<>>]

\* Unregister(connection): removes the session; without a session of the
\* connection it changes nothing
Unregister(c) ==
    /\ hubLoop = "running"
    /\ IF Registered(c)
       THEN RemoveSession(c)
       ELSE UNCHANGED <<interest, pending>>
    /\ UNCHANGED <<hubLoop, alive, delivered, lastPublish>>
    /\ UNCHANGED <<serverVars, requestVars, mapVars, renderVars, tagVars>>

\* the interest route equals the changed route
HubMatchesEqualOnly(i, r) == i = r

\* the interest route equals the changed route or is a prefix of it
HubMatches(i, r) == IsPrefixOf(i, r)

\* Publish(route): selects the sessions whose interest matches and hands one
\* notification to the delivery path of each
Publish(r) ==
    /\ hubLoop = "running"
    /\ lastPublish.n < MaxPublish
    /\ lastPublish' = [n |-> lastPublish.n + 1, route |-> r]
    /\ pending' = [c \in Conns |->
                      IF Registered(c) /\ HubMatches(interest[c].route, r)
                      THEN Append(pending[c], r)
                      ELSE pending[c]]
    /\ UNCHANGED <<hubLoop, interest, alive, delivered>>
    /\ UNCHANGED <<serverVars, requestVars, mapVars, renderVars, tagVars>>

\* the delivery path of a session sends its next notification
Deliver(c) ==
    /\ Registered(c)
    /\ pending[c] # <<>>
    /\ alive[c]
    /\ delivered' = [delivered EXCEPT ![c] = Append(@, Head(pending[c]))]
    /\ pending' = [pending EXCEPT ![c] = Tail(@)]
    /\ UNCHANGED <<hubLoop, interest, alive, lastPublish>>
    /\ UNCHANGED <<serverVars, requestVars, mapVars, renderVars, tagVars>>

\* the send fails (timeout, closed socket): that session alone is unregistered
SendFail(c) ==
    /\ Registered(c)
    /\ pending[c] # <<>>
    /\ ~alive[c]
    /\ RemoveSession(c)
    /\ UNCHANGED <<hubLoop, alive, delivered, lastPublish>>
    /\ UNCHANGED <<serverVars, requestVars, mapVars, renderVars, tagVars>>

\* the socket of a connection closes or stalls
Disconnect(c) ==
    /\ alive[c]
    /\ alive' = [alive EXCEPT ![c] = FALSE]
    /\ UNCHANGED <<hubLoop, interest, pending, delivered, lastPublish>>
    /\ UNCHANGED <<serverVars, requestVars, mapVars, renderVars, tagVars>>

HubNext ==
    \/ HubRun
    \/ \E c \in Conns, r \in HubRoutes : Register(c, r)
    \/ \E c \in Conns : Unregister(c)
    \/ \E r \in HubRoutes : Publish(r)
    \/ \E c \in Conns : Deliver(c)
    \/ \E c \in Conns : SendFail(c)
    \/ \E c \in Conns : Disconnect(c)

HubAlone == ServerIdle /\ RequestInit /\ HubInit /\ MapIdle /\ RenderIdle /\ TagIdle

SpecHub == HubAlone /\ [][HubNext]_vars

\* C2: Publish(r) hands exactly one notification to every registered session
\* whose interest route equals r or is a prefix of r and none to any other;
\* a session that is not registered (any more) receives nothing further; and
\* removing one session leaves every other session and its deliveries as
\* they are.
C2_PublishReachesMatchingSessions ==
    [][/\ lastPublish' # lastPublish =>
            \A c \in Conns :
               LET i == interest[c].route
                   r == lastPublish'.route
                   hit == /\ interest[c].state = "registered"
                          /\ Len(i) <= Len(r)
                          /\ SubSeq(r, 1, Len(i)) = i
               IN /\ pending'[c] = (IF hit THEN pending[c] \o <<r>> ELSE pending[c])
                  /\ delivered'[c] = delivered[c]
       /\ \A c \in Conns :
            interest'[c].state # "registered" =>
               /\ delivered'[c] = delivered[c]
               /\ pending'[c] = <<>>
       /\ \A c \in Conns :
            (interest[c].state = "registered" /\ interest'[c].state = "closed") =>
               \A d \in Conns \ {c} :
                  /\ interest'[d] = interest[d]
                  /\ pending'[d] = pending[d]
                  /\ delivered'[d] = delivered[d]
      ]_vars

\* two sessions on /a were both notified of a change to /a and of nothing
\* else although /b changed too, then one was unregistered
C2_Witness ==
    \E c, d \in Conns :
        /\ c # d
        /\ interest[c].state = "closed"
        /\ interest[d] = [state |-> "registered", route |-> <<"a">>]
        /\ delivered[c] = << <<"a">> >>
        /\ delivered[d] = << <<"a">> >>
        /\ lastPublish = [n |-> 2, route |-> <<"b">>]

\* ------------------------------------------------------------------------
\* mapper.Map
\* ------------------------------------------------------------------------
\* types.PresentationItemType, RepositoryItemType, DocumentItemType, MessageItemType
RecognizedItemTypes == {"presentation", "repository", "document", "message"}
ItemTypes == RecognizedItemTypes \cup {"unknown"}
ContentStrings == {"p", "q"}

\* An item tree is a sequence of items, item 1 the root, each other item
\* after its parent; item.Childs lists the children in that order.
ItemTrees(n) ==
    {t \in [1..n -> [Parent : 0..(n - 1), ItemType : ItemTypes]] :
        \A i \in 1..n : t[i].Parent < i /\ (t[i].Parent = 0) = (i = 1)}

Childs(its, i) == SelectSeq([j \in 1..Len(its) |-> j], LAMBDA j : its[j].Parent = i)

\* a nil *view.Model
NilModel == [kind |-> "nil", item |-> 0, Type |-> "", Content |-> "", Childs |-> <<>>]

\* getModel: the fields copied from the item (Level, the routes, Title,
\* Description, language, date, tags) are stood for by the item itself
GetModel(its, i, c) ==
    [kind |-> "model", item |-> i, Type |-> its[i].ItemType, Content |-> c, Childs |-> <<>>]

\* view.Error(title, message, relativePath, absolutePath); the message names
\* the item type
ViewError(its, i) ==
    [kind |-> "error", item |-> i, Type |-> its[i].ItemType, Content |-> "", Childs |-> <<>>]

RECURSIVE Map(_, _, _)

\* the children mapped in reverse order
GetSubModelsReversed(its, cf, i) ==
    LET cs == Childs(its, i)
    IN [k \in 1..Len(cs) |-> Map(its, cf, cs[Len(cs) + 1 - k])]

\* getSubModels: for _, child := range item.Childs { append(models, Map(child, content)) }
GetSubModels(its, cf, i) ==
    LET cs == Childs(its, i)
    IN [k \in 1..Len(cs) |-> Map(its, cf, cs[k])]

\* Map(item, content): the model it returns
Map(its, cf, i) ==
    IF its[i].ItemType \in RecognizedItemTypes
    THEN [GetModel(its, i, cf[i]) EXCEPT !.Childs = GetSubModels(its, cf, i)]
    ELSE ViewError(its, i)

\* the items a call Map(from, content) reaches: from itself, and the
\* children of every reached item of a recognized type
RECURSIVE Reached(_, _, _)
Reached(its, from, i) ==
    \/ i = from
    \/ /\ i > from
       /\ its[i].Parent >= from
       /\ its[its[i].Parent].ItemType \in RecognizedItemTypes
       /\ Reached(its, from, its[i].Parent)

MapInit ==
    /\ \E n \in 1..MaxItems :
          /\ items \in ItemTrees(n)
          /\ content \in [1..n -> ContentStrings]
          /\ itemModel = [i \in 1..n |-> NilModel]
    /\ mapResult = NilModel

\* a call Map(item, content) for the root: every item it reaches gets its
\* model assigned (item.Model = model)
MapCall ==
    /\ mapResult' = Map(items, content, 1)
    /\ itemModel' = [i \in 1..Len(items) |->
                        IF Reached(items, 1, i) THEN Map(items, content, i)
                        ELSE itemModel[i]]
    /\ UNCHANGED <<items, content>>
    /\ UNCHANGED <<serverVars, requestVars, hubVars, renderVars, tagVars>>

MapNext == MapCall

MapAlone == ServerIdle /\ RequestInit /\ HubIdle /\ MapInit /\ RenderIdle /\ TagIdle

SpecMap == MapAlone /\ [][MapNext]_vars

\* the model m is the populated model of item i: its Content is the content
\* function applied to i, its Childs are the models of the children of i,
\* one per child and in their order; for an item of unrecognized type it is
\* an error model without children
RECURSIVE IsModelOf(_, _)
IsModelOf(m, i) ==
    IF items[i].ItemType \in {"presentation", "repository", "document", "message"}
    THEN /\ m.kind = "model"
         /\ m.item = i
         /\ m.Type = items[i].ItemType
         /\ m.Content = content[i]
         /\ Len(m.Childs) = Cardinality({j \in 1..Len(items) : items[j].Parent = i})
         /\ \A k \in 1..Len(m.Childs) :
               /\ items[m.Childs[k].item].Parent = i
               /\ \A l \in 1..(k - 1) : m.Childs[l].item < m.Childs[k].item
               /\ IsModelOf(m.Childs[k], m.Childs[k].item)
    ELSE /\ m.kind = "error"
         /\ m.item = i
         /\ m.Type = items[i].ItemType
         /\ m.Childs = <<>>

RECURSIVE IsBelow(_, _)
IsBelow(i, u) == i # 0 /\ (i = u \/ IsBelow(items[i].Parent, u))

\* a model without the models of its children
Shallow(m) == [m EXCEPT !.Childs = <<>>]

\* C8: Map returns a model tree that follows the item tree, with an error
\* model in place of the subtree of an item of unrecognized type; the models
\* of the mapped items outside that subtree (its siblings, its ancestors but
\* for the one child model) are what they would be had the item been of a
\* recognized type.
C8_MapFollowsItemTree ==
    mapResult # NilModel =>
        /\ IsModelOf(mapResult, 1)
        /\ itemModel[1] = mapResult
        /\ \A u \in 1..Len(items) :
              (items[u].ItemType \notin RecognizedItemTypes /\ itemModel[u] # NilModel) =>
                  LET asDocument == [items EXCEPT ![u].ItemType = "document"]
                  IN \A v \in 1..Len(items) :
                        (~IsBelow(v, u) /\ itemModel[v] # NilModel) =>
                           /\ Shallow(itemModel[v]) = Shallow(Map(asDocument, content, v))
                           /\ Len(itemModel[v].Childs) = Len(Map(asDocument, content, v).Childs)
                           /\ ~IsBelow(u, v) =>
                                 itemModel[v] = Map(asDocument, content, v)

\* a tree was mapped whose root has an unrecognized first child and a
\* recognized second child
C8_Witness ==
    /\ mapResult # NilModel
    /\ Len(items) >= 3
    /\ items[1].ItemType = "repository"
    /\ items[2].Parent = 1 /\ items[2].ItemType = "unknown"
    /\ items[3].Parent = 1 /\ items[3].ItemType = "document"
    /\ mapResult.Childs[1].kind = "error"
    /\ mapResult.Childs[2].kind = "model"

\* ------------------------------------------------------------------------
\* Strings as sequences of characters
\* ------------------------------------------------------------------------
WhiteSpace == {" ", "\t"}

RECURSIVE TrimLeft(_)
TrimLeft(str) ==
    IF str # <<>> /\ Head(str) \in WhiteSpace THEN TrimLeft(Tail(str)) ELSE str

RECURSIVE TrimRight(_)
TrimRight(str) ==
    IF str # <<>> /\ str[Len(str)] \in WhiteSpace
    THEN TrimRight(SubSeq(str, 1, Len(str) - 1))
    ELSE str

\* strings.TrimSpace
TrimSpace(str) == TrimRight(TrimLeft(str))

\* ------------------------------------------------------------------------
\* The file tree renderer
\* ------------------------------------------------------------------------
Segments == {"a", "b"}

\* the routes of files: one or two segments
FileRoutes == UNION {[1..k -> Segments] : k \in 1..2}

\* the base routes of a renderer
BaseRoutes == {<<>>, <<"a">>}

\* a path as it comes with a request, cut at its slashes: a piece is a
\* segment, empty (two slashes in a row) or malformed
Malformed == "%"
RawPaths == UNION {[1..k -> {"", "a", Malformed}] : k \in 0..2}

Titles == {<<>>, <<" ">>, <<"T">>, <<" ", "T", " ">>}

\* route.NewFromRequest: the route of a request path; empty pieces vanish, a
\* malformed piece fails the parse
NewFromRequest(raw) ==
    [ok |-> \A k \in 1..Len(raw) : raw[k] # Malformed,
     route |-> SelectSeq(raw, LAMBDA x : x # "" /\ x # Malformed)]

\* route.Combine: the segments of both routes, one after the other
Combine(r1, r2) == [ok |-> TRUE, route |-> r1 \o r2]

\* newTree: the root node alone.  A tree is its nodes (the route of each) in
\* the order they were created, and the routes that carry a File.
NewTree == [nodes |-> <<>>, withFile |-> {}]

\* tree.Insert(file): walks the route of the file from the root, creates the
\* nodes that are missing and puts the File at the last one
RECURSIVE InsertPath(_, _, _)
InsertPath(nodes, r, k) ==
    IF k > Len(r) THEN nodes
    ELSE LET pre == SubSeq(r, 1, k)
             have == \E n \in 1..Len(nodes) : nodes[n] = pre
         IN InsertPath(IF have THEN nodes ELSE Append(nodes, pre), r, k + 1)

Insert(tree, r) ==
    [nodes |-> InsertPath(tree.nodes, r, 1), withFile |-> tree.withFile \cup {r}]

\* convertFilesToTree: for _, file := range files { tree.Insert(file) }
RECURSIVE ConvertFilesToTree(_)
ConvertFilesToTree(fs) ==
    IF fs = <<>> THEN NewTree
    ELSE Insert(ConvertFilesToTree(SubSeq(fs, 1, Len(fs) - 1)), fs[Len(fs)])

\* tree.GetNode(route): whether the walk from the root finds a node
HasNode(tree, r) == r = <<>> \/ \E n \in 1..Len(tree.nodes) : tree.nodes[n] = r

\* node.Childs(): the children in the order they were created
NodeChilds(tree, r) ==
    SelectSeq(tree.nodes, LAMBDA n : Len(n) = Len(r) + 1 /\ IsPrefixOf(r, n))

\* pieces of markup
Tok(tag) == [tag |-> tag, text |-> "", arg |-> <<>>]
\* <section class="cssClass">
SectionTok(css) == [tag |-> "section", text |-> css, arg |-> <<>>]
\* \n<header>title</header>\n
HeaderTok(title) == [tag |-> "header", text |-> "", arg |-> title]
\* <a href="Path(route)" title="route">last component of route</a>
LinkTok(r) == [tag |-> "a", text |-> "", arg |-> r]
\* node.Name()
NameTok(r) == [tag |-> "name", text |-> r[Len(r)], arg |-> <<>>]

RECURSIVE RenderFileNode(_, _)
RECURSIVE RenderItems(_, _, _)
\* the loop of renderFileNode over the children from the k-th on
RenderItems(tree, cs, k) ==
    IF k > Len(cs) THEN <<>>
    ELSE <<Tok("li")>> \o RenderFileNode(tree, cs[k]) \o <<Tok("/li")>>
         \o RenderItems(tree, cs, k + 1)

\* renderFileNode(node)
RenderFileNode(tree, r) ==
    LET html == IF r \in tree.withFile THEN <<LinkTok(r)>> ELSE <<NameTok(r)>>
        childs == NodeChilds(tree, r)
    IN IF Len(childs) > 0
       THEN html \o <<Tok("ul")>> \o RenderItems(tree, childs, 1) \o <<Tok("/ul")>>
       ELSE html

RECURSIVE RenderTopItems(_, _, _)
\* the loop of Render over the children from the k-th on
RenderTopItems(tree, cs, k) ==
    IF k > Len(cs) THEN <<>>
    ELSE <<Tok("li-top")>> \o RenderFileNode(tree, cs[k]) \o <<Tok("/li")>>
         \o RenderTopItems(tree, cs, k + 1)

\* a list written whether or not the node has children
RenderAlwaysList(tree, b, title, css, raw) ==
    LET folderRoute == NewFromRequest(raw)
        full == Combine(b, folderRoute.route)
        childs == NodeChilds(tree, full.route)
    IN IF ~folderRoute.ok THEN <<>>
       ELSE <<SectionTok(css)>>
            \o (IF TrimSpace(title) # <<>> THEN <<HeaderTok(title)>> ELSE <<>>)
            \o <<Tok("ul-tree")>> \o RenderTopItems(tree, childs, 1)
            \o <<Tok("/ul"), Tok("/section")>>

\* Render(title, cssClass, path)
Render(tree, b, title, css, raw) ==
    LET folderRoute == NewFromRequest(raw)
        full == Combine(b, folderRoute.route)
        code == <<SectionTok(css)>>
                \o (IF TrimSpace(title) # <<>> THEN <<HeaderTok(title)>> ELSE <<>>)
    IN IF ~folderRoute.ok THEN <<>>
       ELSE IF ~full.ok THEN <<>>
       ELSE IF HasNode(tree, full.route) /\ Len(NodeChilds(tree, full.route)) > 0
       THEN code \o <<Tok("ul-tree")>>
                 \o RenderTopItems(tree, NodeChilds(tree, full.route), 1)
                 \o <<Tok("/ul"), Tok("/section")>>
       ELSE code

DistinctSeqs(S, n) ==
    UNION {{f \in [1..k -> S] : \A i, j \in 1..k : i # j => f[i] # f[j]} : k \in 0..n}

NoRenderArgs == [called |-> FALSE, title |-> <<>>, css |-> "", path |-> <<>>]

\* New(pathProvider, baseRoute, files)
RenderInit ==
    /\ files \in DistinctSeqs(FileRoutes, MaxFiles)
    /\ base \in BaseRoutes
    /\ renderArgs = NoRenderArgs
    /\ rendered = <<>>

RenderCall(title, css, raw) ==
    /\ ~renderArgs.called
    /\ renderArgs' = [called |-> TRUE, title |-> title, css |-> css, path |-> raw]
    /\ rendered' = Render(ConvertFilesToTree(files), base, title, css, raw)
    /\ UNCHANGED <<files, base>>
    /\ UNCHANGED <<serverVars, requestVars, hubVars, mapVars, tagVars>>

RenderNext == \E title \in Titles, raw \in RawPaths : RenderCall(title, "files", raw)

RenderAlone == ServerIdle /\ RequestInit /\ HubIdle /\ MapIdle /\ RenderInit /\ TagIdle

SpecRender == RenderAlone /\ [][RenderNext]_vars

\* ------------------------------------------------------------------------
\* C9
\* ------------------------------------------------------------------------
ListTags == {"ul-tree", "ul", "/ul", "li-top", "li", "/li"}

HasListMarkup(out) == \E k \in 1..Len(out) : out[k].tag \in ListTags

\* the route Render looks up: the base, then the segments of the path
LookedUp == base \o SelectSeq(renderArgs.path, LAMBDA x : x \in Segments)

\* the first file below the route r
FirstFileBelow(r) ==
    CHOOSE k \in 1..Len(files) :
        /\ IsPrefixOf(r, files[k])
        /\ \A l \in 1..(k - 1) : ~IsPrefixOf(r, files[l])

\* the children of the looked up node: the routes one segment longer that
\* some file lies at or below
ChildRoutes ==
    {c \in UNION {[1..k -> Segments] : k \in 1..(Len(LookedUp) + 1)} :
        /\ Len(c) = Len(LookedUp) + 1
        /\ IsPrefixOf(LookedUp, c)
        /\ \E k \in 1..Len(files) : IsPrefixOf(c, files[k])}

\* the places of the list items Render itself writes
TopItems(out) == SelectSeq([k \in 1..Len(out) |-> k], LAMBDA k : out[k].tag = "li-top")

\* the route the markup that follows a list item stands for
ItemRoute(out, k) ==
    IF out[k + 1].tag = "a" THEN out[k + 1].arg
    ELSE LookedUp \o <<out[k + 1].text>>

\* C9: for a parsable path Render writes list markup iff the node at base +
\* path exists and has a child; then every child is one list item, in the
\* order the children were inserted, a link iff the child carries a File;
\* otherwise the result is the section markup, with the header iff the title
\* is not blank, and nothing else.
C9_ListIffChildren ==
    (renderArgs.called /\ \A k \in 1..Len(renderArgs.path) : renderArgs.path[k] # Malformed) =>
        LET out == rendered
            head == <<SectionTok(renderArgs.css)>>
                    \o (IF \E k \in 1..Len(renderArgs.title) :
                              renderArgs.title[k] \notin WhiteSpace
                        THEN <<HeaderTok(renderArgs.title)>> ELSE <<>>)
            top == TopItems(out)
        IN /\ HasListMarkup(out) = (ChildRoutes # {})
           /\ SubSeq(out, 1, Len(head)) = head
           /\ ChildRoutes = {} => out = head
           /\ ChildRoutes # {} =>
                 /\ out[Len(head) + 1].tag = "ul-tree"
                 /\ Len(top) = Cardinality(ChildRoutes)
                 /\ \A j \in 1..Len(top) :
                       /\ ItemRoute(out, top[j]) \in ChildRoutes
                       /\ (out[top[j] + 1].tag = "a") =
                             (\E k \in 1..Len(files) : files[k] = ItemRoute(out, top[j]))
                       /\ \A i \in 1..(j - 1) :
                             FirstFileBelow(ItemRoute(out, top[i]))
                                < FirstFileBelow(ItemRoute(out, top[j]))

\* a node that carries a File and has children was rendered below a header
C9_Witness ==
    /\ renderArgs.called
    /\ base = <<>>
    /\ renderArgs.path = <<>>
    /\ renderArgs.title = <<" ", "T", " ">>
    /\ files = << <<"b">>, <<"a">>, <<"b", "a">> >>
    /\ Len(TopItems(rendered)) = 2

\* ------------------------------------------------------------------------
\* repository.NewTag
\* ------------------------------------------------------------------------
NameChars == {" ", "\t", "a", "A", "b"}

NameInputs == UNION {[1..k -> NameChars] : k \in 0..MaxNameLen}

LowerOf(ch) == IF ch = "A" THEN "a" ELSE ch

\* strings.ToLower
ToLower(str) == [k \in 1..Len(str) |-> LowerOf(str[k])]

\* the name trimmed on its left side only
NormalizeTagNameLeftOnly(name) == ToLower(TrimLeft(name))

\* normalizeTagName: strings.ToLower(strings.TrimSpace(name))
NormalizeTagName(name) == ToLower(TrimSpace(name))

\* the result of a call: called, whether it returned a Tag (and no error),
\* and the Name of the Tag
NoTag == [called |-> FALSE, ok |-> FALSE, Name |-> <<>>]

\* NewTag(name)
NewTag(name) ==
    LET normalized == NormalizeTagName(name)
    IN IF normalized = <<>>
       THEN [called |-> TRUE, ok |-> FALSE, Name |-> <<>>]
       ELSE [called |-> TRUE, ok |-> TRUE, Name |-> normalized]

TagInit ==
    /\ tagInput \in NameInputs
    /\ tagResult = NoTag
    /\ tagAgain = NoTag

\* a call NewTag(tagInput)
NewTagCall ==
    /\ ~tagResult.called
    /\ tagResult' = NewTag(tagInput)
    /\ UNCHANGED <<tagInput, tagAgain>>
    /\ UNCHANGED <<serverVars, requestVars, hubVars, mapVars, renderVars>>

\* a call NewTag(tag.Name) for the Tag the first call returned
NewTagOfName ==
    /\ tagResult.ok
    /\ ~tagAgain.called
    /\ tagAgain' = NewTag(tagResult.Name)
    /\ UNCHANGED <<tagInput, tagResult>>
    /\ UNCHANGED <<serverVars, requestVars, hubVars, mapVars, renderVars>>

TagNext == NewTagCall \/ NewTagOfName

TagAlone == ServerIdle /\ RequestInit /\ HubIdle /\ MapIdle /\ RenderIdle /\ TagInit

SpecTag == TagAlone /\ [][TagNext]_vars

\* the same name in the other letter case at place k
OtherCase(str, k) ==
    [str EXCEPT ![k] = IF @ = "A" THEN "a" ELSE IF @ = "a" THEN "A" ELSE @]

\* C10: NewTag fails iff the name holds nothing but white space; otherwise
\* the Name of the Tag is the name without the white space around it, in
\* lower case, so it is not empty; NewTag of that Name gives an equal Tag; and
\* a name that differs only in white space around it or in the case of a
\* letter gives an equal Tag.
C10_TagNormalised ==
    tagResult.called =>
        /\ tagResult.ok = (\E k \in 1..Len(tagInput) : tagInput[k] \notin {" ", "\t"})
        /\ ~tagResult.ok => tagResult.Name = <<>>
        /\ tagResult.ok =>
              /\ tagResult.Name # <<>>
              /\ \E i, j \in 1..Len(tagInput) :
                    /\ i <= j
                    /\ \A k \in 1..Len(tagInput) :
                          (k < i \/ k > j) => tagInput[k] \in {" ", "\t"}
                    /\ tagInput[i] \notin {" ", "\t"}
                    /\ tagInput[j] \notin {" ", "\t"}
                    /\ Len(tagResult.Name) = j - i + 1
                    /\ \A k \in 1..(j - i + 1) :
                          tagResult.Name[k] =
                             (IF tagInput[i + k - 1] = "A" THEN "a" ELSE tagInput[i + k - 1])
        /\ tagAgain.called => tagAgain = tagResult
        /\ \A ws \in {" ", "\t"} :
              /\ NewTag(<<ws>> \o tagInput) = tagResult
              /\ NewTag(tagInput \o <<ws>>) = tagResult
        /\ \A k \in 1..Len(tagInput) : NewTag(OtherCase(tagInput, k)) = tagResult

\* NewTag(" A") returned the Tag "a", and NewTag("a") an equal Tag
C10_Witness ==
    /\ tagInput = <<" ", "A">>
    /\ tagResult = [called |-> TRUE, ok |-> TRUE, Name |-> <<"a">>]
    /\ tagAgain = tagResult

\* ------------------------------------------------------------------------
\* Specifications of the server
\* ------------------------------------------------------------------------
Init == ServerInit /\ RequestInit /\ HubIdle /\ MapIdle /\ RenderIdle /\ TagIdle

Next == ServerNext

\* the lifecycle of a Server under any number of Start() calls
Spec == Init /\ [][Next]_vars

\* one Start() call whose listener serves requests
DispatchNext ==
    \/ starts = 0 /\ Start
    \/ \E g \in Goroutines : SetRunning(g)
    \/ \E g \in Goroutines : StartHub(g)
    \/ \E g \in Goroutines : RegisterRoutes(g)
    \/ \E g \in Goroutines : GetHttpBinding(g)
    \/ \E g \in Goroutines : ListenBind(g)
    \/ \E g \in Goroutines : Request(g)
    \/ Respond

SpecDispatch == Init /\ [][DispatchNext]_vars

\* ------------------------------------------------------------------------
\* Dispatch: C1, C7
\* ------------------------------------------------------------------------
SpecialSuffixes == {"print", "json", "rtf", "ws"}

SuffixHandler(w) ==
    CASE w = "print" -> "Print"
      [] w = "json" -> "Json"
      [] w = "rtf" -> "Rtf"
      [] w = "ws" -> "Update"

\* the path ends in ".<w>"
EndsInSuffix(p, w) == Len(p) >= 3 /\ p[Len(p)] = w /\ p[Len(p) - 1] = "."

\* what stands between the leading "/" and the ".<w>"
StemOf(p) == SubSeq(p, 2, Len(p) - 2)

\* a request served, whose path is canonical and holds no line feed
ServedPlain == reqHandler # None /\ IsCleanPath(reqPath) /\ NoLF(reqPath)

\* the router the request was served by
ServingRoutes == routes[CHOOSE g \in Goroutines : pc[g] = "serving"]

NoEarlierMatch(rs, p) == \A i \in 1..(Len(rs) - 1) : ~PatternMatches(rs[i].pattern, p)

CatchAllLast(rs) ==
    /\ Len(rs) >= 1
    /\ rs[Len(rs)].handler = "Item"
    /\ \A i \in 1..(Len(rs) - 1) : rs[i].handler # "Item" /\ rs[i].pattern.kind # "any"

\* C1 as stated: a path ending in a special suffix that is not a fixed page
\* goes to the handler of that suffix, and a path no earlier pattern matches
\* goes to the catch-all, which is registered last.
C1_SuffixBeforeCatchAll ==
    ServedPlain =>
        /\ \A w \in SpecialSuffixes :
              (EndsInSuffix(reqPath, w) /\ reqPath \notin FixedPages)
                  => reqHandler = SuffixHandler(w)
        /\ CatchAllLast(ServingRoutes)
        /\ NoEarlierMatch(ServingRoutes, reqPath) => reqHandler = "Item"

\* C1 as amended: every canonical path without a line feed gets exactly one
\* registered handler; /<stem>.ws and /<stem>.print with a non-empty stem go
\* to the update and print handlers; /<stem>.rtf and /<stem>.json with a
\* non-empty stem go to the rtf and json handlers unless the path is a fixed
\* page or, with the theme directory present, starts with /theme; a path no
\* earlier pattern matches goes to the catch-all, which is registered last
\* and is the only catch-all.
C1_FirstMatchDispatch ==
    ServedPlain =>
        /\ reqHandler \in {ServingRoutes[i].handler : i \in 1..Len(ServingRoutes)}
        /\ \A w \in {"ws", "print"} :
              (EndsInSuffix(reqPath, w) /\ StemOf(reqPath) # <<>>)
                  => reqHandler = SuffixHandler(w)
        /\ \A w \in {"rtf", "json"} :
              (/\ EndsInSuffix(reqPath, w)
               /\ StemOf(reqPath) # <<>>
               /\ reqPath \notin FixedPages
               /\ ~(themeDirExists /\ IsPrefixOf(ThemeFolderRoute, reqPath)))
                  => reqHandler = SuffixHandler(w)
        /\ CatchAllLast(ServingRoutes)
        /\ (reqHandler = "Item") = NoEarlierMatch(ServingRoutes, reqPath)

\* /x.json was served by the json handler
C1_Witness ==
    /\ reqPath = <<"/", "x", ".", "json">>
    /\ reqHandler = "Json"

\* the path is the theme folder or lies below it
UnderThemeFolder(p) ==
    \/ p = ThemeFolderRoute
    \/ IsPrefixOf(ThemeFolderRoute \o <<"/">>, p)

\* C7: with the theme directory present every request under /theme is served
\* by the static file handler, whatever its suffix; without the directory no
\* static handler is registered.
C7_StaticShortCircuits ==
    /\ ServedPlain =>
          ((themeDirExists /\ UnderThemeFolder(reqPath)) => reqHandler = "Static")
    /\ \A g \in Goroutines :
          (~themeDirExists /\ routes[g] # <<>>) =>
              \A i \in 1..Len(routes[g]) : routes[g][i].handler # "Static"

\* ------------------------------------------------------------------------
\* Lifecycle: C3, C4, C5, C6
\* ------------------------------------------------------------------------
ListenerErrors == {"bind_error", "serve_error"}

\* C3: the outcome of a server run is delivered exactly once on the channel
\* Start() returned: nothing is sent before the listener returns, never a
\* second value, and once the goroutine is past the send exactly one value
\* was received, an error iff the listener returned an error.
C3_OutcomeDeliveredOnce ==
    \A g \in Goroutines :
        /\ sent[g] <= 1
        /\ listener[g] # "returned" => (sent[g] = 0 /\ received[g] = None)
        /\ listener[g] = "returned" =>
              \/ pc[g] = "send" /\ sent[g] = 0 /\ received[g] = None
              \/ /\ pc[g] \in {"stopping", "done"}
                 /\ sent[g] = 1
                 /\ (received[g] = "error") = (listenErr[g] \in ListenerErrors)
                 /\ (received[g] = "nil") = (listenErr[g] = "nil")

\* a run ended with an error that the caller received
C3_Witness ==
    \E g \in Goroutines : pc[g] = "done" /\ sent[g] = 1 /\ received[g] = "error"

\* C4: whenever the caller has received the error from the completion
\* channel, IsRunning() returns false.
C4_StoppedOnceErrorReceived ==
    \A g \in Goroutines :
        received[g] = "error" => \A v \in IsRunningOutcomes : v = FALSE

\* C5: IsRunning() is false before the first Start() and true whenever a
\* listener started by Start() is serving.
C5_ReflectsLifecycle ==
    /\ starts = 0 => ~isRunning
    /\ (\E g \in Goroutines : listener[g] = "serving") => isRunning

PortInRange == 1 <= port /\ port <= MaxUint16

\* C6 as stated: the port is validated first, so that after the abort none
\* of the later startup steps has taken place.
C6_PortValidatedFirst ==
    \A g \in Goroutines :
        pc[g] = "panicked" =>
            /\ ~hubStarted[g]
            /\ routes[g] = <<>>
            /\ listener[g] = None
            /\ sent[g] = 0

\* C6 as amended: the port is validated right before the listener is bound,
\* after the hub loop was started and the routes were registered; with a port
\* outside [1, 65535] the goroutine panics, nothing is sent on a completion
\* channel and no listener is ever bound; with a port inside it never panics.
C6_PortValidatedBeforeBind ==
    /\ crashed = (\E g \in Goroutines : pc[g] = "panicked")
    /\ PortInRange => ~crashed
    /\ \A g \in Goroutines :
          /\ pc[g] = "panicked" => (~PortInRange /\ hubStarted[g] /\ routes[g] # <<>>)
          /\ ~PortInRange =>
                /\ listener[g] = None
                /\ sent[g] = 0
                /\ received[g] = None
                /\ pc[g] \in {"idle", "spawned", "hub", "routes", "binding", "panicked"}

\* startup was aborted by the port check
C6_Witness == \E g \in Goroutines : pc[g] = "panicked" /\ crashed

====
